---- MODULE Spec2Model ----
(***************************************************************************)
(* The entity motion controllers of the 3D demo scenes, as state machines. *)
(*                                                                         *)
(* Scene variants (variable "variant"):                                    *)
(*   "mushroom"        src/src/App.tsx            first-person maze,       *)
(*                     mushrooms can be stood on, jump and fall physics    *)
(*   "redObstacle"     src/unnamed/part_001:1-201 first-person maze,       *)
(*                     obstacles block, world = grid * CELL_SIZE           *)
(*   "mushroomBlocked" src/unnamed/part_001:486-795 first-person maze,     *)
(*                     obstacles block, minimap with facing                *)
(*   "roamShader"      src/unnamed/part_000 (and part_001:203-484, the     *)
(*                     same code with logging) free-roam sandbox whose     *)
(*                     Player reports its position to Game                 *)
(*   "roam"            src/unnamed/part_002:1-242 free-roam sandbox        *)
(*   "staticPlayer"    src/unnamed/part_002:244-351 sandbox whose Player   *)
(*                     only spins; collectibles and score as the others    *)
(*                                                                         *)
(* Numbers.  The code computes in IEEE doubles.  The model reads them in   *)
(* fixed point:                                                            *)
(*   delta            in 1/TimeScale   seconds      (1/60 s)               *)
(*   velocities       in 1/VelScale    units/second (1/3)                  *)
(*   heights (y)      in 1/HeightScale units        (1/180)                *)
(*   free-roam x, z   in 1/WorldScale  units        (1/64)                 *)
(* With these scales  velocity -= 20 * delta  is  v' = v - d  and          *)
(* height += velocity * delta  is  h' = h + v * d  in whole units.  A      *)
(* frame time of k/60 s is not a double, so the doubles of a jump or a     *)
(* fall drift from these readings by a few units in the last place.  That  *)
(* is far below a unit, but it decides the comparison  newHeight <=        *)
(* groundLevel  when the reading is exactly the ground level.  For the     *)
(* height, the jump velocity and the fall speed of the mushroom maze, and  *)
(* for the height and the vertical velocity of the free-roam player, the   *)
(* model therefore also keeps the doubles themselves (variables "doubles"  *)
(* and "roamDoubles"), computed as the hardware computes them, and         *)
(* consults them where the readings tie.  The horizontal components of     *)
(* worldPosition decay towards their target by a factor that no fixed      *)
(* point holds, so they are the doubles themselves: worldPosition is       *)
(* <<x, reading of y, z>> with x and z doubles.                            *)
(*                                                                         *)
(* React state.  Each handler runs to completion on the committed state    *)
(* and its queued updates are committed before the next handler runs:      *)
(* a handler is one atomic action.  Updates queued on one state variable   *)
(* in one handler are applied in order, so a later plain set overrides an  *)
(* earlier functional update.                                              *)
(***************************************************************************)
EXTENDS Integers, Sequences, FiniteSets, TLC

VARIABLES
    variant,          \* which scene is running
    \* FirstPersonPlayer (grid variants)
    currentGridPos, worldPosition, isFalling, fallSpeed, facingDirection,
    isJumping, jumpVelocity, playerHeight,
    \* the doubles held by playerHeight, jumpVelocity and fallSpeed
    doubles,
    \* Game of the grid variants
    playerGridPos, playerDirection, gamePlayerHeight,
    \* Player of the free-roam variants
    keys, playerPosition, velocity, isOnGround,
    \* the doubles held by playerPosition[1] and velocity[1], the vertical ones
    roamDoubles,
    \* Game of the sandbox variants
    score, collectibles, gamePlayerPosition,
    \* observers of a jump: frame updates since the jump input, and whether
    \* one of them has already failed to raise the height
    frames, descended,
    \* the frame time of a render loop that runs at a constant rate, in 1/60 s
    pace

player == <<currentGridPos, worldPosition, isFalling, fallSpeed, facingDirection,
            isJumping, jumpVelocity, playerHeight, doubles>>
game == <<playerGridPos, playerDirection, gamePlayerHeight>>
roamer == <<keys, playerPosition, velocity, isOnGround, roamDoubles>>
sandbox == <<score, collectibles, gamePlayerPosition>>
observers == <<frames, descended, pace>>
vars == <<variant, player, game, roamer, sandbox, observers>>

----------------------------------------------------------------------------
(* Units and program constants *)

TimeScale == 60
VelScale == 3
HeightScale == 180
WorldScale == 64

GRID_SIZE == 10
CELL_SIZE == 1
SPEED == 5
GRAVITY == 20
JUMP_VELOCITY == 8 * VelScale
FLOOR_LEVEL == HeightScale \div 2
MUSHROOM_LEVEL == HeightScale
JUMP_EPSILON == HeightScale \div 10
SCORE_STEP == 10

obstacles == {<<2, 3>>, <<7, 1>>, <<4, 6>>, <<8, 8>>, <<1, 7>>, <<6, 2>>, <<3, 9>>, <<9, 4>>}

InitialCollectibles == {1, 2, 3}

GridVariants == {"mushroom", "redObstacle", "mushroomBlocked"}
RoamVariants == {"roamShader", "roam"}
SandboxVariants == RoamVariants \cup {"staticPlayer"}

(* Bounds of the model *)

\* frame times offered to a frame update of the grid variants, in 1/60 s:
\* 0 and 0.2 s
Deltas == {0, 12}
\* frame times offered to a frame update of the free-roam player, in 1/60 s:
\* 0 and 0.15 s, at which a jump rises for two frames and comes down for
\* three
RoamDeltas == {0, 9}
\* a move is taken only while it leaves the camera at most this many cells
\* (summed over both axes) behind its target
MaxLag == 1
\* the free-roam player is followed inside |x|, |z| <= MaxRoam units
MaxRoam == 1
\* collection events followed
MaxCollects == 3

GridKeys == {"ArrowUp", "ArrowDown", "ArrowLeft", "ArrowRight", "Space"}
RoamKeys == {"KeyW", "KeyA", "KeyS", "KeyD", "Space"}

Abs(n) == IF n < 0 THEN -n ELSE n

----------------------------------------------------------------------------
(* IEEE 754 binary64, the number type of the code.  A finite double is     *)
(* zero or sign * mantissa * 2^exp with MinExp <= exp <= MaxExp: normal     *)
(* when 2^52 <= mantissa < 2^53, subnormal when mantissa < 2^52 and         *)
(* exp = MinExp.  The mantissa is kept as hi * 2^28 + lo.  Infinity is the  *)
(* record of sign * 2^1024, the magnitude at which a result overflows; NaN  *)
(* has sign 0 and the exponent of Infinity.  Sums and products are formed   *)
(* exactly on little-endian sequences of 14-bit limbs and rounded to        *)
(* nearest, ties to even, as the hardware does.  There is one zero: the     *)
(* code never divides and never reads the sign of a zero, and x + (-0) = x  *)
(* for every x it forms.  An operand is bound by  v \in {x}  where it is    *)
(* used more than once, so that it is evaluated once.                       *)

Limb == 16384

\* the exponents of the smallest and of the largest finite double
MinExp == -1074
MaxExp == 971

Zero == [sign |-> 0, hi |-> 0, lo |-> 0, exp |-> 0]

Infinity(sign) == [sign |-> sign, hi |-> 2^24, lo |-> 0, exp |-> MaxExp + 1]

NaN == [sign |-> 0, hi |-> 0, lo |-> 0, exp |-> MaxExp + 1]

\* x is Infinity, -Infinity or NaN
notFinite(x) == x.exp > MaxExp

isNaN(x) == x.sign = 0 /\ x.exp > MaxExp

RECURSIVE Carry(_, _)
Carry(c, k) ==
    CHOOSE value \in
        {IF limbs = <<>>
         THEN (IF carry = 0 THEN <<>> ELSE <<carry % Limb>> \o Carry(<<>>, carry \div Limb))
         ELSE <<(limbs[1] + carry) % Limb>> \o Carry(Tail(limbs), (limbs[1] + carry) \div Limb) :
             limbs \in {c}, carry \in {k}} : TRUE

limbAt(x, i) == IF i >= 1 /\ i <= Len(x) THEN x[i] ELSE 0

\* the product of two mantissas of four limbs each
Times(a, b) ==
    CHOOSE value \in
        {Carry(<<x[1] * y[1],
                 x[1] * y[2] + x[2] * y[1],
                 x[1] * y[3] + x[2] * y[2] + x[3] * y[1],
                 x[1] * y[4] + x[2] * y[3] + x[3] * y[2] + x[4] * y[1],
                 x[2] * y[4] + x[3] * y[3] + x[4] * y[2],
                 x[3] * y[4] + x[4] * y[3],
                 x[4] * y[4]>>, 0) : x \in {a}, y \in {b}} : TRUE

\* the limbs of a + b and of a - b, for a >= b, from digits that may exceed a limb
Plus(a, b) ==
    CHOOSE value \in
        {Carry([k \in 1..(IF Len(x) > Len(y) THEN Len(x) ELSE Len(y)) |->
                   limbAt(x, k) + limbAt(y, k)], 0) : x \in {a}, y \in {b}} : TRUE

Minus(a, b) ==
    CHOOSE value \in
        {Carry([k \in 1..(IF Len(x) > Len(y) THEN Len(x) ELSE Len(y)) |->
                   limbAt(x, k) - limbAt(y, k)], 0) : x \in {a}, y \in {b}} : TRUE

RECURSIVE Top(_, _)
\* index of the highest limb of x that is not zero, 0 when there is none
Top(x, i) == IF i = 0 THEN 0 ELSE IF x[i] # 0 THEN i ELSE Top(x, i - 1)

RECURSIVE Bits(_)
Bits(n) == IF n = 0 THEN 0 ELSE 1 + Bits(n \div 2)

BitLength(x) ==
    CHOOSE value \in
        {IF top = 0 THEN 0 ELSE 14 * (top - 1) + Bits(x[top]) : top \in {Top(x, Len(x))}} : TRUE

ShiftLeft(x, n) ==
    CHOOSE value \in
        {[i \in 1..(n \div 14) |-> 0] \o Carry([i \in 1..Len(limbs) |-> limbs[i] * 2^(n % 14)], 0) :
             limbs \in {x}} : TRUE

bitAt(x, j) == (limbAt(x, j \div 14 + 1) \div 2^(j % 14)) % 2

\* the bits of x below bit j are all zero
zeroBelow(x, j) ==
    /\ \A i \in 1..(j \div 14) : limbAt(x, i) = 0
    /\ limbAt(x, j \div 14 + 1) % 2^(j % 14) = 0

\* the 28 bits of x from bit j upwards; j may be negative, the bits below
\* bit 0 are zero
field(x, j) ==
    limbAt(x, j \div 14 + 1) \div 2^(j % 14)
        + limbAt(x, j \div 14 + 2) * 2^(14 - (j % 14))
        + (limbAt(x, j \div 14 + 3) % 2^(j % 14)) * 2^(28 - (j % 14))

mantissa(x) == <<x.lo % Limb, x.lo \div Limb, x.hi % Limb, x.hi \div Limb>>

\* the double one unit in the last place above  sign * (hi * 2^28 + lo) * 2^exp
\* in magnitude
nextUp(sign, hi, lo, exp) ==
    IF lo + 1 < 2^28 THEN [sign |-> sign, hi |-> hi, lo |-> lo + 1, exp |-> exp]
    ELSE IF hi + 1 < 2^25 THEN [sign |-> sign, hi |-> hi + 1, lo |-> 0, exp |-> exp]
    ELSE [sign |-> sign, hi |-> 2^24, lo |-> 0, exp |-> exp + 1]

\* a rounded value in the range of the doubles: zero when nothing is left of it
\* (underflow), Infinity when its exponent is above MaxExp (overflow)
ranged(r) ==
    CHOOSE value \in
        {IF x.hi = 0 /\ x.lo = 0 THEN Zero
         ELSE IF x.exp > MaxExp THEN Infinity(x.sign)
         ELSE x : x \in {r}} : TRUE

\* the lowest bit kept of a number of n bits times 2^exp: the last of its
\* leading 53 bits, or the bit of 2^MinExp when that is higher (gradual
\* underflow)
lowBit(n, exp) == IF n - 53 > MinExp - exp THEN n - 53 ELSE MinExp - exp

\* sign * z * 2^exp rounded to a double: the bits of z from its lowest bit
\* kept upwards, one unit up when the bits lost are more than half a unit, or
\* half a unit and the last bit kept is odd
round(sign, z, exp) ==
    CHOOSE value \in
        {CHOOSE double \in
             {IF /\ low > 0
                 /\ bitAt(limbs, low - 1) = 1
                 /\ (~zeroBelow(limbs, low - 1) \/ bitAt(limbs, low) = 1)
              THEN ranged(nextUp(sign, field(limbs, low + 28), field(limbs, low), exp + low))
              ELSE ranged([sign |-> sign, hi |-> field(limbs, low + 28),
                           lo |-> field(limbs, low), exp |-> exp + low]) :
                  low \in {lowBit(BitLength(limbs), exp)}} : TRUE :
             limbs \in {z}} : TRUE

fmul(a, b) ==
    CHOOSE value \in
        {IF notFinite(x) \/ notFinite(y)
         THEN (IF x.sign * y.sign = 0 THEN NaN ELSE Infinity(x.sign * y.sign))
         ELSE IF x.sign = 0 \/ y.sign = 0 THEN Zero
         ELSE round(x.sign * y.sign, Times(mantissa(x), mantissa(y)), x.exp + y.exp) :
             x \in {a}, y \in {b}} : TRUE

\* the digits of x * 2^n, not carried
shifted(x, n) == [i \in 1..(n \div 14) |-> 0] \o [i \in 1..Len(x) |-> x[i] * 2^(n % 14)]

\* the mantissa and exponent of a are below those of b
smaller(a, b) ==
    \/ a.exp < b.exp
    \/ a.exp = b.exp /\ (a.hi < b.hi \/ (a.hi = b.hi /\ a.lo < b.lo))

\* the sum of two doubles that are not zero, big the one with the larger
\* exponent; a double below a quarter of the last place of the other leaves
\* it as it is
aligned(big, small) ==
    IF big.exp - small.exp > 54 THEN big
    ELSE CHOOSE value \in
        {IF big.sign = small.sign THEN round(big.sign, Plus(x, y), small.exp)
         ELSE IF smaller(big, small) THEN round(small.sign, Minus(y, x), small.exp)
         ELSE round(big.sign, Minus(x, y), small.exp) :
             x \in {shifted(mantissa(big), big.exp - small.exp)}, y \in {mantissa(small)}} : TRUE

fadd(a, b) ==
    CHOOSE value \in
        {IF isNaN(p) \/ isNaN(q) THEN NaN
         ELSE IF notFinite(p) THEN (IF notFinite(q) /\ q.sign # p.sign THEN NaN ELSE p)
         ELSE IF notFinite(q) THEN q
         ELSE IF p.sign = 0 THEN q
         ELSE IF q.sign = 0 THEN p
         ELSE IF p.exp >= q.exp THEN aligned(p, q)
         ELSE aligned(q, p) : p \in {a}, q \in {b}} : TRUE

fneg(a) == [a EXCEPT !.sign = -a.sign]

fabs(a) == [a EXCEPT !.sign = a.sign * a.sign]

\* a - b; the difference of equal finite doubles is zero
fsub(a, b) == IF a = b /\ ~notFinite(a) THEN Zero ELSE fadd(a, fneg(b))

\* a <= b, false when either is NaN
fle(a, b) ==
    \E x \in {a}, y \in {b} :
        \/ x = y /\ ~isNaN(x)
        \/ x.sign < y.sign /\ ~isNaN(x) /\ ~isNaN(y)
        \/ x.sign = 1 /\ y.sign = 1 /\ smaller(x, y)
        \/ x.sign = -1 /\ y.sign = -1 /\ smaller(y, x)

RECURSIVE Quotient(_, _, _, _)
\* the limbs of x divided by the small number d, from limb i downwards with
\* remainder r carried in; the remainder comes out as the last element
Quotient(x, d, i, r) ==
    IF i = 0 THEN <<r>>
    ELSE CHOOSE value \in
             {Quotient(x, d, i - 1, n % d) \o <<n \div d>> : n \in {r * Limb + x[i]}} : TRUE

\* the double nearest to n / d, for 0 <= n and 0 < d < 2^16
fratio(n, d) ==
    IF n = 0 THEN Zero
    ELSE CHOOSE value \in
             {round(1, Carry(ShiftLeft(Tail(qr), 1), IF qr[1] # 0 THEN 1 ELSE 0), -71) :
                  qr \in {Quotient(ShiftLeft(Carry(<<n>>, 0), 70), d,
                                   Len(ShiftLeft(Carry(<<n>>, 0), 70)), 0)}} : TRUE

\* the doubles of the frame times, of the ground levels and of the constants
\* of the code
seconds == [delta \in 0..TimeScale |-> fratio(delta, TimeScale)]

gravityDouble == [delta \in 0..TimeScale |-> fmul(fratio(GRAVITY, 1), seconds[delta])]

levels == [height \in {FLOOR_LEVEL, MUSHROOM_LEVEL} |-> fratio(height, HeightScale)]

jumpForce == fratio(JUMP_VELOCITY, VelScale)

jumpEpsilon == fratio(JUMP_EPSILON, HeightScale)

speedDouble == fratio(SPEED, 1)

\* 2^k as a double
pow2(k) == [sign |-> 1, hi |-> 2^24, lo |-> 0, exp |-> k - 52]

\* the double of n horizontal units, n / WorldScale: the bits of n at the top
\* of the mantissa
worldDouble(n) ==
    IF n = 0 THEN Zero
    ELSE CHOOSE value \in
             {[sign |-> IF n < 0 THEN -1 ELSE 1,
               hi |-> IF bits <= 25 THEN Abs(n) * 2^(25 - bits) ELSE Abs(n) \div 2^(bits - 25),
               lo |-> IF bits <= 25 THEN 0 ELSE (Abs(n) % 2^(bits - 25)) * 2^(53 - bits),
               exp |-> bits - 53 - (Bits(WorldScale) - 1)] : bits \in {Bits(Abs(n))}} : TRUE

\* the doubles of an entity standing at a height that is a double
standing(height) == [playerHeight |-> fratio(height, HeightScale), jumpVelocity |-> Zero, fallSpeed |-> Zero]


----------------------------------------------------------------------------
(* FirstPersonPlayer: helpers *)

gridToWorld(gridPos) ==
    IF variant = "redObstacle"
    THEN <<worldDouble(gridPos[1] * CELL_SIZE * WorldScale), FLOOR_LEVEL,
           worldDouble(gridPos[2] * CELL_SIZE * WorldScale)>>
    ELSE <<worldDouble(((2 * gridPos[1] - (GRID_SIZE - 1)) * CELL_SIZE * WorldScale) \div 2),
           FLOOR_LEVEL,
           worldDouble(((2 * gridPos[2] - (GRID_SIZE - 1)) * CELL_SIZE * WorldScale) \div 2)>>

\* the upper bound compared with > where the code has >=
outOfGrid_OffByOne(pos) ==
    pos[1] < 0 \/ pos[1] > GRID_SIZE \/ pos[2] < 0 \/ pos[2] > GRID_SIZE

outOfGrid(pos) ==
    pos[1] < 0 \/ pos[1] >= GRID_SIZE \/ pos[2] < 0 \/ pos[2] >= GRID_SIZE

isOnMushroom(pos) == \E obstacle \in obstacles : obstacle[1] = pos[1] /\ obstacle[2] = pos[2]

\* only the walls block: the obstacle test is left out
isPositionBlocked_WallsOnly(pos) == outOfGrid(pos)

\* mushrooms block in the mushroom maze too
isPositionBlocked_Mushrooms(pos) == outOfGrid(pos) \/ isOnMushroom(pos)

isPositionBlocked(pos) ==
    IF outOfGrid(pos) THEN TRUE
    ELSE IF variant = "mushroom" THEN FALSE
    ELSE isOnMushroom(pos)

\* East also steps one row: a diagonal move
getFacingDirectionDelta_Diagonal(direction) ==
    CASE direction = 0 -> <<0, -1>>
      [] direction = 1 -> <<1, 1>>
      [] direction = 2 -> <<0, 1>>
      [] direction = 3 -> <<-1, 0>>
      [] OTHER -> <<0, -1>>

getFacingDirectionDelta(direction) ==
    CASE direction = 0 -> <<0, -1>>
      [] direction = 1 -> <<1, 0>>
      [] direction = 2 -> <<0, 1>>
      [] direction = 3 -> <<-1, 0>>
      [] OTHER -> <<0, -1>>

\* (prev - 1) % 4 with the remainder of the code's language: -1 for prev = 0
turnLeft_SignedRemainder(prev) == IF prev = 0 THEN -1 ELSE prev - 1

turnLeft(prev) == (prev + 3) % 4

turnRight(prev) == (prev + 1) % 4

\* the ground level of the bare floor, whatever the cell holds
groundLevelAt_Floor(pos) == FLOOR_LEVEL

groundLevelAt(pos) == IF isOnMushroom(pos) THEN MUSHROOM_LEVEL ELSE FLOOR_LEVEL

\* the keydown handler without its guard
inputLocked_Never == FALSE

\* no input while in the air, jumping included
inputLocked_InTheAir == isFalling \/ isJumping

inputLocked == isFalling

\* Math.abs(playerHeight - groundLevel) < 0.1: decided by the readings when
\* the distance they give is not 0.1, and by the doubles when it is
nearGround(groundLevel) ==
    \/ Abs(playerHeight - groundLevel) < JUMP_EPSILON
    \/ /\ Abs(playerHeight - groundLevel) = JUMP_EPSILON
       /\ ~fle(jumpEpsilon, [fsub(doubles.playerHeight, levels[groundLevel]) EXCEPT !.sign = Abs(@)])

\* a jump may start in mid-jump
canJump_DoubleJump ==
    /\ variant = "mushroom"
    /\ nearGround(groundLevelAt(currentGridPos))

canJump ==
    /\ variant = "mushroom"
    /\ ~isJumping
    /\ nearGround(groundLevelAt(currentGridPos))

forwardCell(pos, direction) ==
    <<pos[1] + getFacingDirectionDelta(direction)[1], pos[2] + getFacingDirectionDelta(direction)[2]>>

\* Backward steps along the facing direction, as Forward does
backwardCell_AddsDelta(pos, direction) ==
    <<pos[1] + getFacingDirectionDelta(direction)[1], pos[2] + getFacingDirectionDelta(direction)[2]>>

backwardCell(pos, direction) ==
    <<pos[1] - getFacingDirectionDelta(direction)[1], pos[2] - getFacingDirectionDelta(direction)[2]>>

hasOnRotate == variant \in {"mushroom", "mushroomBlocked"}

----------------------------------------------------------------------------
(* FirstPersonPlayer: the keydown handler.  The outcome of one call on the *)
(* current state: the values its queued updates commit, and the callbacks  *)
(* it invokes, in order.                                                   *)

handleKeyDown(code) ==
    IF inputLocked
    THEN [currentGridPos |-> currentGridPos, facingDirection |-> facingDirection,
          isJumping |-> isJumping, jumpVelocity |-> jumpVelocity, calls |-> <<>>]
    ELSE LET newGridPos == CASE code = "ArrowUp" -> forwardCell(currentGridPos, facingDirection)
                             [] code = "ArrowDown" -> backwardCell(currentGridPos, facingDirection)
                             [] OTHER -> currentGridPos
             moved == code \in {"ArrowUp", "ArrowDown"}
             rotated == code \in {"ArrowLeft", "ArrowRight"}
             newDirection == CASE code = "ArrowLeft" -> turnLeft(facingDirection)
                               [] code = "ArrowRight" -> turnRight(facingDirection)
                               [] OTHER -> facingDirection
             jumps == code = "Space" /\ canJump
             accepted == moved /\ ~isPositionBlocked(newGridPos)
         IN  [currentGridPos |-> IF accepted THEN newGridPos ELSE currentGridPos,
              facingDirection |-> newDirection,
              isJumping |-> IF jumps THEN TRUE ELSE isJumping,
              jumpVelocity |-> IF jumps THEN JUMP_VELOCITY ELSE jumpVelocity,
              calls |-> (IF rotated /\ hasOnRotate THEN << <<"onRotate", newDirection>> >> ELSE <<>>)
                        \o (IF accepted THEN << <<"onMove", newGridPos>> >> ELSE <<>>)]

----------------------------------------------------------------------------
(* FirstPersonPlayer: the frame update *)

\* gravity 40 in place of 20
gravityStep_Doubled(delta) == (2 * GRAVITY * delta * VelScale) \div TimeScale

gravityStep(delta) == (GRAVITY * delta * VelScale) \div TimeScale

rise(speed, delta) == (speed * delta * HeightScale) \div (VelScale * TimeScale)

\* the smoothing rate applied twice
smooth_DoubleRate(current, target, delta) ==
    fadd(current, fmul(fmul(fsub(target, current), fratio(2 * SPEED, 1)), seconds[delta]))

\* current + (target - current) * speed * delta, on doubles and in the order
\* the code evaluates it: the difference, its product with speed, the
\* product of that with delta, and the sum, each rounded
smooth(current, target, delta) ==
    fadd(current, fmul(fmul(fsub(target, current), speedDouble), seconds[delta]))

\* the landing is tested against the bare floor, not the ground level of the cell
landed_OnFloor(newHeight, newDouble, groundLevel) ==
    \/ newHeight < FLOOR_LEVEL
    \/ newHeight = FLOOR_LEVEL /\ fle(newDouble, levels[FLOOR_LEVEL])

\* newHeight <= groundLevel: decided by the readings when they differ, which
\* is by a whole unit, and by the doubles when the readings tie
landed(newHeight, newDouble, groundLevel) ==
    \/ newHeight < groundLevel
    \/ newHeight = groundLevel /\ fle(newDouble, levels[groundLevel])

\* newHeight > groundLevel and newHeight < groundLevel for the height held
above(groundLevel) ==
    \/ playerHeight > groundLevel
    \/ playerHeight = groundLevel /\ ~fle(doubles.playerHeight, levels[groundLevel])

below(groundLevel) ==
    \/ playerHeight < groundLevel
    \/ playerHeight = groundLevel /\ doubles.playerHeight # levels[groundLevel]
                                  /\ fle(doubles.playerHeight, levels[groundLevel])

\* the double of  playerHeight + speed * delta
risen(speed, delta) == fadd(doubles.playerHeight, fmul(speed, seconds[delta]))

\* the landing forgets to zero the jump velocity
jumpBranch_KeepsVelocity(delta, groundLevel) ==
    LET newHeight == playerHeight + rise(jumpVelocity, delta)
    IN  IF landed(newHeight, risen(doubles.jumpVelocity, delta), groundLevel)
        THEN [height |-> groundLevel, isJumping |-> FALSE,
              jumpVelocity |-> jumpVelocity - gravityStep(delta),
              isFalling |-> isFalling, fallSpeed |-> fallSpeed]
        ELSE [height |-> newHeight, isJumping |-> isJumping,
              jumpVelocity |-> jumpVelocity - gravityStep(delta),
              isFalling |-> isFalling, fallSpeed |-> fallSpeed]

jumpBranch(delta, groundLevel) ==
    LET newHeight == playerHeight + rise(jumpVelocity, delta)
    IN  IF landed(newHeight, risen(doubles.jumpVelocity, delta), groundLevel)
        THEN [height |-> groundLevel, isJumping |-> FALSE, jumpVelocity |-> 0,
              isFalling |-> isFalling, fallSpeed |-> fallSpeed]
        ELSE [height |-> newHeight, isJumping |-> isJumping,
              jumpVelocity |-> jumpVelocity - gravityStep(delta),
              isFalling |-> isFalling, fallSpeed |-> fallSpeed]

\* the doubles of the jump branch
jumpDoubles(delta, groundLevel) ==
    IF landed(playerHeight + rise(jumpVelocity, delta), risen(doubles.jumpVelocity, delta),
              groundLevel)
    THEN [doubles EXCEPT !.playerHeight = levels[groundLevel], !.jumpVelocity = Zero]
    ELSE [doubles EXCEPT !.playerHeight = risen(doubles.jumpVelocity, delta),
                         !.jumpVelocity = fsub(@, gravityDouble[delta])]

\* the fall lands one frame early: as soon as the next step would reach the ground
fallBranch_LandsEarly(delta, groundLevel) ==
    LET newHeight == playerHeight + rise(fallSpeed, delta)
    IN  IF landed(newHeight + rise(fallSpeed - gravityStep(delta), delta),
                  fadd(risen(doubles.fallSpeed, delta),
                       fmul(fsub(doubles.fallSpeed, gravityDouble[delta]), seconds[delta])),
                  groundLevel)
        THEN [height |-> newHeight, isJumping |-> isJumping, jumpVelocity |-> jumpVelocity,
              isFalling |-> FALSE, fallSpeed |-> 0]
        ELSE [height |-> newHeight, isJumping |-> isJumping, jumpVelocity |-> jumpVelocity,
              isFalling |-> TRUE, fallSpeed |-> fallSpeed - gravityStep(delta)]

\* the landing clamps the height and stops the fall speed but keeps the lock
fallBranch_KeepsFalling(delta, groundLevel) ==
    LET newHeight == playerHeight + rise(fallSpeed, delta)
    IN  IF landed(newHeight, risen(doubles.fallSpeed, delta), groundLevel)
        THEN [height |-> groundLevel, isJumping |-> isJumping, jumpVelocity |-> jumpVelocity,
              isFalling |-> TRUE, fallSpeed |-> 0]
        ELSE [height |-> newHeight, isJumping |-> isJumping, jumpVelocity |-> jumpVelocity,
              isFalling |-> TRUE, fallSpeed |-> fallSpeed - gravityStep(delta)]

fallBranch(delta, groundLevel) ==
    LET newHeight == playerHeight + rise(fallSpeed, delta)
    IN  IF landed(newHeight, risen(doubles.fallSpeed, delta), groundLevel)
        THEN [height |-> groundLevel, isJumping |-> isJumping, jumpVelocity |-> jumpVelocity,
              isFalling |-> FALSE, fallSpeed |-> 0]
        ELSE [height |-> newHeight, isJumping |-> isJumping, jumpVelocity |-> jumpVelocity,
              isFalling |-> TRUE, fallSpeed |-> fallSpeed - gravityStep(delta)]

\* the doubles of the fall branch
fallDoubles(delta, groundLevel) ==
    IF landed(playerHeight + rise(fallSpeed, delta), risen(doubles.fallSpeed, delta),
              groundLevel)
    THEN [doubles EXCEPT !.playerHeight = levels[groundLevel], !.fallSpeed = Zero]
    ELSE [doubles EXCEPT !.playerHeight = risen(doubles.fallSpeed, delta),
                         !.fallSpeed = fsub(@, gravityDouble[delta])]

\* the lift is eased: half of the way per frame
snapBranch_Eased(groundLevel) ==
    [height |-> playerHeight + (groundLevel - playerHeight) \div 2, isJumping |-> isJumping,
     jumpVelocity |-> jumpVelocity, isFalling |-> FALSE, fallSpeed |-> 0]

\* stepping up is treated as a fall towards the new ground level
snapBranch_Falls(groundLevel) ==
    [height |-> groundLevel, isJumping |-> isJumping, jumpVelocity |-> jumpVelocity,
     isFalling |-> TRUE, fallSpeed |-> 0]

snapBranch(groundLevel) ==
    [height |-> groundLevel, isJumping |-> isJumping, jumpVelocity |-> jumpVelocity,
     isFalling |-> FALSE, fallSpeed |-> 0]

\* the doubles of the lift
snapDoubles(groundLevel) ==
    [doubles EXCEPT !.playerHeight = levels[groundLevel], !.fallSpeed = Zero]

restBranch ==
    [height |-> playerHeight, isJumping |-> isJumping, jumpVelocity |-> jumpVelocity,
     isFalling |-> isFalling, fallSpeed |-> fallSpeed]

\* the branches in the other order: the height is compared with the ground
\* level before the jump is looked at
vertical_FallsWhileJumping(delta, groundLevel) ==
    IF above(groundLevel) THEN fallBranch(delta, groundLevel)
    ELSE IF isJumping THEN jumpBranch(delta, groundLevel)
    ELSE IF below(groundLevel) THEN snapBranch(groundLevel)
    ELSE restBranch

vertical(delta, groundLevel) ==
    IF isJumping THEN jumpBranch(delta, groundLevel)
    ELSE IF above(groundLevel) THEN fallBranch(delta, groundLevel)
    ELSE IF below(groundLevel) THEN snapBranch(groundLevel)
    ELSE restBranch

\* the doubles the frame update commits, branch by branch as vertical
verticalDoubles(delta, groundLevel) ==
    IF isJumping THEN jumpDoubles(delta, groundLevel)
    ELSE IF above(groundLevel) THEN fallDoubles(delta, groundLevel)
    ELSE IF below(groundLevel) THEN snapDoubles(groundLevel)
    ELSE doubles

useFrame(delta) ==
    LET target == gridToWorld(currentGridPos)
        newX == smooth(worldPosition[1], target[1], delta)
        newZ == smooth(worldPosition[3], target[3], delta)
    IN  IF variant = "mushroom"
        THEN LET v == vertical(delta, groundLevelAt(currentGridPos))
             IN  [worldPosition |-> <<newX, v.height, newZ>>, playerHeight |-> v.height,
                  isJumping |-> v.isJumping, jumpVelocity |-> v.jumpVelocity,
                  isFalling |-> v.isFalling, fallSpeed |-> v.fallSpeed,
                  calls |-> << <<"onHeightChange", v.height>> >>]
        ELSE [worldPosition |-> <<newX, FLOOR_LEVEL, newZ>>, playerHeight |-> playerHeight,
              isJumping |-> isJumping, jumpVelocity |-> jumpVelocity,
              isFalling |-> isFalling, fallSpeed |-> fallSpeed, calls |-> <<>>]

\* the camera is at most MaxLag cells from the centre of cell pos
axisLag(target, current) == IF target = current THEN Zero ELSE fabs(fsub(target, current))

WithinLag(pos) ==
    \E target \in {gridToWorld(pos)} :
        fle(fadd(axisLag(target[1], worldPosition[1]), axisLag(target[3], worldPosition[3])),
            fratio(MaxLag * CELL_SIZE, 1))

\* the camera is on the target of the grid coordinate
atRest ==
    /\ worldPosition[1] = gridToWorld(currentGridPos)[1]
    /\ worldPosition[3] = gridToWorld(currentGridPos)[3]

\* x is a whole number of half cells
halfCells(x) ==
    IF notFinite(x) THEN FALSE
    ELSE IF x.sign = 0 \/ x.exp >= -1 THEN TRUE
    ELSE IF x.exp >= -29 THEN x.lo % 2^(-1 - x.exp) = 0
    ELSE IF x.exp >= -53 THEN x.lo = 0 /\ x.hi % 2^(-29 - x.exp) = 0
    ELSE FALSE

\* the camera stands on the centre or on the border of a cell on both axes
OnHalfCell == halfCells(worldPosition[1]) /\ halfCells(worldPosition[3])

----------------------------------------------------------------------------
(* Game of the grid variants: the callbacks handed to FirstPersonPlayer *)

\* the argument of the last call of callback name in calls, or old when there is none
Delivered(calls, name, old) ==
    LET hits == SelectSeq(calls, LAMBDA c : c[1] = name)
    IN  IF hits = <<>> THEN old ELSE hits[Len(hits)][2]

\* the callback drops its argument
handlePlayerMove_Ignores(calls) == playerGridPos

handlePlayerMove(calls) == Delivered(calls, "onMove", playerGridPos)

\* the callback drops its argument
handlePlayerRotate_Ignores(calls) == playerDirection

handlePlayerRotate(calls) == Delivered(calls, "onRotate", playerDirection)

handlePlayerHeightChange(calls) == Delivered(calls, "onHeightChange", gamePlayerHeight)

----------------------------------------------------------------------------
(* Player of the free-roam sandbox: held keys and the frame update *)

keyName(code) ==
    CASE code = "KeyW" -> "w"
      [] code = "KeyA" -> "a"
      [] code = "KeyS" -> "s"
      [] code = "KeyD" -> "d"
      [] code = "Space" -> "space"
      [] OTHER -> "none"

roamKeyDown(code) == IF keyName(code) = "none" THEN keys ELSE [keys EXCEPT ![keyName(code)] = TRUE]

roamKeyUp(code) == IF keyName(code) = "none" THEN keys ELSE [keys EXCEPT ![keyName(code)] = FALSE]

walkStep(delta) == (SPEED * delta * WorldScale) \div TimeScale

\* the jump does not ask whether the player is on the ground
roamJumps_InTheAir == keys.space

roamJumps == keys.space /\ isOnGround

\* the ground is reached only below the ground level
roamLanded_Below(newY, newDouble) ==
    \/ newY < FLOOR_LEVEL
    \/ newY = FLOOR_LEVEL /\ newDouble # levels[FLOOR_LEVEL] /\ fle(newDouble, levels[FLOOR_LEVEL])

\* newPosition[1] <= groundLevel: decided by the readings when they differ,
\* and by the doubles when the readings tie
roamLanded(newY, newDouble) ==
    \/ newY < FLOOR_LEVEL
    \/ newY = FLOOR_LEVEL /\ fle(newDouble, levels[FLOOR_LEVEL])

\* newVelocity[1] after the jump and gravity, and newPosition[1] before the
\* landing test: the readings and the doubles
roamSpeed(delta) == (IF roamJumps THEN JUMP_VELOCITY ELSE velocity[2]) - gravityStep(delta)

roamHeight(delta) == playerPosition[2] + rise(roamSpeed(delta), delta)

roamSpeedDouble(delta) ==
    fsub(IF roamJumps THEN jumpForce ELSE roamDoubles.velocity, gravityDouble[delta])

roamHeightDouble(delta) ==
    fadd(roamDoubles.height, fmul(roamSpeedDouble(delta), seconds[delta]))

roamFrame(delta) ==
    LET newZ == playerPosition[3] - (IF keys.w THEN walkStep(delta) ELSE 0)
                                  + (IF keys.s THEN walkStep(delta) ELSE 0)
        newX == playerPosition[1] - (IF keys.a THEN walkStep(delta) ELSE 0)
                                  + (IF keys.d THEN walkStep(delta) ELSE 0)
        newV == roamSpeed(delta)
        newY == roamHeight(delta)
        lands == roamLanded(newY, roamHeightDouble(delta))
        newPosition == <<newX, IF lands THEN FLOOR_LEVEL ELSE newY, newZ>>
    IN  [playerPosition |-> newPosition,
         velocity |-> <<velocity[1], IF lands THEN 0 ELSE newV, velocity[3]>>,
         isOnGround |-> IF lands THEN TRUE ELSE IF roamJumps THEN FALSE ELSE isOnGround,
         calls |-> IF variant = "roamShader" THEN << <<"onPositionChange", newPosition>> >> ELSE <<>>]

\* the doubles the frame update of the free-roam player commits
roamFrameDoubles(delta) ==
    IF roamHeight(delta) < FLOOR_LEVEL
    THEN [height |-> levels[FLOOR_LEVEL], velocity |-> Zero]
    ELSE CHOOSE value \in
             {CHOOSE committed \in
                  {IF roamLanded(roamHeight(delta), newDouble)
                   THEN [height |-> levels[FLOOR_LEVEL], velocity |-> Zero]
                   ELSE [height |-> newDouble, velocity |-> newVelocity] :
                       newDouble \in {fadd(roamDoubles.height, fmul(newVelocity, seconds[delta]))}} : TRUE :
                  newVelocity \in {roamSpeedDouble(delta)}} : TRUE

RoamRepresentable(delta) == (SPEED * delta * WorldScale) % TimeScale = 0

WithinRoam(pos) ==
    /\ Abs(pos[1]) <= MaxRoam * WorldScale
    /\ Abs(pos[3]) <= MaxRoam * WorldScale

(* Game of the sandbox variants *)

\* a collection event for an id that is gone puts it back
handleCollect_Toggles(id) ==
    [collectibles |-> IF \E i \in 1..Len(collectibles) : collectibles[i] = id
                      THEN SelectSeq(collectibles, LAMBDA c : c # id)
                      ELSE Append(collectibles, id),
     score |-> score + SCORE_STEP]

handleCollect(id) ==
    [collectibles |-> SelectSeq(collectibles, LAMBDA c : c # id),
     score |-> score + SCORE_STEP]

activeIds == {collectibles[i] : i \in 1..Len(collectibles)}

----------------------------------------------------------------------------
(* Initial states: the state each scene is constructed with *)

GridInit ==
    /\ currentGridPos = <<5, 5>>
    /\ worldPosition = gridToWorld(<<5, 5>>)
    /\ isFalling = FALSE
    /\ fallSpeed = 0
    /\ facingDirection = 0
    /\ isJumping = FALSE
    /\ jumpVelocity = 0
    /\ playerHeight = FLOOR_LEVEL
    /\ doubles = standing(FLOOR_LEVEL)
    /\ playerGridPos = <<5, 5>>
    /\ playerDirection = 0
    /\ gamePlayerHeight = FLOOR_LEVEL

RoamInit ==
    /\ keys = [w |-> FALSE, a |-> FALSE, s |-> FALSE, d |-> FALSE, space |-> FALSE]
    /\ playerPosition = <<0, 0, 0>>
    /\ velocity = <<0, 0, 0>>
    /\ roamDoubles = [height |-> Zero, velocity |-> Zero]
    /\ isOnGround = TRUE
    /\ score = 0
    /\ collectibles = <<1, 2, 3>>
    /\ gamePlayerPosition = <<0, 0, 0>>

ObserversInit ==
    /\ frames = 0
    /\ descended = FALSE
    /\ pace = 0

Init ==
    /\ variant \in GridVariants \cup SandboxVariants
    /\ GridInit
    /\ RoamInit
    /\ ObserversInit

----------------------------------------------------------------------------
(* Actions: one per handler *)

\* an accepted move puts the camera on the new cell at once
KeyDown_Teleports(code) ==
    /\ variant \in GridVariants
    /\ \E r \in {handleKeyDown(code)} :
           /\ WithinLag(r.currentGridPos)
           /\ currentGridPos' = r.currentGridPos
           /\ facingDirection' = r.facingDirection
           /\ isJumping' = r.isJumping
           /\ jumpVelocity' = r.jumpVelocity
           /\ doubles' = IF r.isJumping /\ ~isJumping
                         THEN [doubles EXCEPT !.jumpVelocity = jumpForce]
                         ELSE doubles
           /\ playerGridPos' = handlePlayerMove(r.calls)
           /\ playerDirection' = handlePlayerRotate(r.calls)
           /\ worldPosition' = <<gridToWorld(r.currentGridPos)[1], worldPosition[2],
                                 gridToWorld(r.currentGridPos)[3]>>
    /\ UNCHANGED <<variant, isFalling, fallSpeed, playerHeight,
                   gamePlayerHeight, roamer, sandbox>>

KeyDown(code) ==
    /\ variant \in GridVariants
    /\ UNCHANGED <<variant, worldPosition, isFalling, fallSpeed, playerHeight,
                   gamePlayerHeight, roamer, sandbox>>
    /\ \E r \in {handleKeyDown(code)} :
           /\ currentGridPos' = r.currentGridPos
           /\ facingDirection' = r.facingDirection
           /\ isJumping' = r.isJumping
           /\ jumpVelocity' = r.jumpVelocity
           /\ doubles' = IF r.isJumping /\ ~isJumping
                         THEN [doubles EXCEPT !.jumpVelocity = jumpForce]
                         ELSE doubles
           /\ playerGridPos' = handlePlayerMove(r.calls)
           /\ playerDirection' = handlePlayerRotate(r.calls)
           /\ WithinLag(r.currentGridPos)

Frame(delta) ==
    /\ variant \in GridVariants
    /\ UNCHANGED <<variant, currentGridPos, facingDirection, playerGridPos,
                   playerDirection, roamer, sandbox>>
    /\ \E r \in {useFrame(delta)} :
           /\ worldPosition' = r.worldPosition
           /\ playerHeight' = r.playerHeight
           /\ isJumping' = r.isJumping
           /\ jumpVelocity' = r.jumpVelocity
           /\ isFalling' = r.isFalling
           /\ fallSpeed' = r.fallSpeed
           /\ doubles' = IF variant = "mushroom"
                         THEN verticalDoubles(delta, groundLevelAt(currentGridPos))
                         ELSE doubles
           /\ gamePlayerHeight' = handlePlayerHeightChange(r.calls)

\* the Space key starts the jump in the handler instead of in the next frame
RoamKeyDown_JumpsAtOnce(code) ==
    /\ variant \in RoamVariants
    /\ keys' = roamKeyDown(code)
    /\ velocity' = IF code = "Space" /\ isOnGround
                   THEN <<velocity[1], JUMP_VELOCITY, velocity[3]>>
                   ELSE velocity
    /\ roamDoubles' = IF code = "Space" /\ isOnGround
                      THEN [roamDoubles EXCEPT !.velocity = jumpForce]
                      ELSE roamDoubles
    /\ UNCHANGED <<variant, player, game, playerPosition, isOnGround, sandbox>>

RoamKeyDown(code) ==
    /\ variant \in RoamVariants
    /\ keys' = roamKeyDown(code)
    /\ UNCHANGED <<variant, player, game, playerPosition, velocity, isOnGround, roamDoubles,
                   sandbox>>

RoamKeyUp(code) ==
    /\ variant \in RoamVariants
    /\ keys' = roamKeyUp(code)
    /\ UNCHANGED <<variant, player, game, playerPosition, velocity, isOnGround, roamDoubles,
                   sandbox>>

RoamFrame(delta) ==
    /\ variant \in RoamVariants
    /\ RoamRepresentable(delta)
    /\ \E r \in {roamFrame(delta)} :
           /\ WithinRoam(r.playerPosition)
           /\ playerPosition' = r.playerPosition
           /\ velocity' = r.velocity
           /\ roamDoubles' = roamFrameDoubles(delta)
           /\ isOnGround' = r.isOnGround
           /\ gamePlayerPosition' = Delivered(r.calls, "onPositionChange", gamePlayerPosition)
    /\ UNCHANGED <<variant, player, game, keys, score, collectibles>>

Collect(id) ==
    /\ variant \in SandboxVariants
    /\ score < MaxCollects * SCORE_STEP
    /\ \E r \in {handleCollect(id)} :
           /\ collectibles' = r.collectibles
           /\ score' = r.score
    /\ UNCHANGED <<variant, player, game, roamer, gamePlayerPosition>>

Next ==
    \/ \E code \in GridKeys : KeyDown(code) /\ UNCHANGED observers
    \/ \E delta \in Deltas : Frame(delta) /\ UNCHANGED observers
    \/ \E code \in RoamKeys : RoamKeyDown(code) /\ UNCHANGED observers
    \/ \E code \in RoamKeys : RoamKeyUp(code) /\ UNCHANGED observers
    \/ \E delta \in RoamDeltas : RoamFrame(delta) /\ UNCHANGED observers
    \/ \E id \in InitialCollectibles : Collect(id) /\ UNCHANGED observers

Spec == Init /\ [][Next]_vars

----------------------------------------------------------------------------
(* A jump at 60 frames per second: the entity stands on a bare cell, the   *)
(* only input is Space and every frame lasts 1/60 s.                       *)

JumpDelta == TimeScale \div 60

\* frames of 1/60 s a jump from rest lasts: 2 * 8 / 20 s, one frame more
\* because the doubles of the height end a little above 0.5 where the
\* readings say 0.5, and the frame that lands
JumpFrames == (2 * JUMP_VELOCITY * TimeScale) \div (GRAVITY * VelScale * JumpDelta) + 2

JumpInit ==
    /\ variant = "mushroom"
    /\ currentGridPos \in ((0..(GRID_SIZE - 1)) \X (0..(GRID_SIZE - 1))) \ obstacles
    /\ facingDirection \in 0..3
    /\ worldPosition = gridToWorld(currentGridPos)
    /\ isFalling = FALSE
    /\ fallSpeed = 0
    /\ isJumping = FALSE
    /\ jumpVelocity = 0
    /\ playerHeight = FLOOR_LEVEL
    /\ doubles = standing(FLOOR_LEVEL)
    /\ playerGridPos = currentGridPos
    /\ playerDirection = facingDirection
    /\ gamePlayerHeight = FLOOR_LEVEL
    /\ RoamInit
    /\ ObserversInit

JumpKey ==
    /\ KeyDown("Space")
    /\ frames' = IF isJumping' /\ ~isJumping THEN 0 ELSE frames
    /\ descended' = IF isJumping' /\ ~isJumping THEN FALSE ELSE descended
    /\ UNCHANGED pace

JumpFrame ==
    /\ Frame(JumpDelta)
    /\ frames' = IF isJumping THEN frames + 1 ELSE frames
    /\ descended' = IF isJumping THEN descended \/ playerHeight' <= playerHeight ELSE descended
    /\ UNCHANGED pace

NextJump == JumpKey \/ JumpFrame

SpecJump == JumpInit /\ [][NextJump]_vars

----------------------------------------------------------------------------
(* Walking off and onto mushrooms: the entity stands on top of a mushroom, *)
(* the only inputs are Forward and Backward, made while the camera stands  *)
(* on the centre or the border of a cell, and frames last 0, 0.1 s or      *)
(* 0.2 s.                                                                  *)

FallDeltas == {0, 6, 12}

FallInit ==
    /\ variant = "mushroom"
    /\ currentGridPos \in obstacles
    /\ facingDirection \in 0..3
    /\ worldPosition = <<gridToWorld(currentGridPos)[1], MUSHROOM_LEVEL, gridToWorld(currentGridPos)[3]>>
    /\ isFalling = FALSE
    /\ fallSpeed = 0
    /\ isJumping = FALSE
    /\ jumpVelocity = 0
    /\ playerHeight = MUSHROOM_LEVEL
    /\ doubles = standing(MUSHROOM_LEVEL)
    /\ playerGridPos = currentGridPos
    /\ playerDirection = facingDirection
    /\ gamePlayerHeight = MUSHROOM_LEVEL
    /\ RoamInit
    /\ ObserversInit

FallMove == \E code \in {"ArrowUp", "ArrowDown"} : OnHalfCell /\ KeyDown(code) /\ UNCHANGED observers

FallFrame == \E delta \in FallDeltas : Frame(delta) /\ UNCHANGED observers

NextFall == FallMove \/ FallFrame

SpecFall == FallInit /\ [][NextFall]_vars

----------------------------------------------------------------------------
(* Jumping onto a mushroom: the entity stands on a bare cell and faces a   *)
(* mushroom; it may jump and move forward, each key being pressed while    *)
(* the camera stands on the centre or the border of a cell, and frames     *)
(* last 0.05 s or 0.2 s.                                                   *)

HopDeltas == {3, 12}

HopInit ==
    /\ JumpInit
    /\ isOnMushroom(forwardCell(currentGridPos, facingDirection))

HopKey ==
    \E code \in {"Space", "ArrowUp"} :
        /\ OnHalfCell
        /\ KeyDown(code)
        /\ UNCHANGED observers

HopFrame == \E delta \in HopDeltas : Frame(delta) /\ UNCHANGED observers

NextHop == HopKey \/ HopFrame

SpecHop == HopInit /\ [][NextHop]_vars

----------------------------------------------------------------------------
(* Landing: as the hop, with each Forward made when the camera has caught  *)
(* up with the entity and each Space while it stands on the centre or the  *)
(* border of a cell, and a render loop that keeps calling the frame        *)
(* callback, each time with a frame time of 0.15 s or 0.2 s.               *)

LandDeltas == {9, 12}

LandKey ==
    \E code \in {"Space", "ArrowUp"} :
        /\ OnHalfCell
        /\ code = "ArrowUp" => atRest
        /\ KeyDown(code)
        /\ UNCHANGED observers

LandFrame == \E delta \in LandDeltas : Frame(delta) /\ UNCHANGED observers

NextLand == LandKey \/ LandFrame

SpecLand == HopInit /\ [][NextLand]_vars /\ WF_vars(LandFrame)

----------------------------------------------------------------------------
(* Frame hitches: the entity walks and turns while the camera stands on    *)
(* the centre or the border of a cell, and frames last 0.2 s or 0.5 s.  A  *)
(* frame is followed only while the camera is within MaxLag cells of its   *)
(* target when the frame starts.                                           *)

HitchDeltas == {12, 30}

WalkKeys == {"ArrowUp", "ArrowDown", "ArrowLeft", "ArrowRight"}

HitchInit == Init /\ variant \in GridVariants

HitchKey == \E code \in WalkKeys : OnHalfCell /\ KeyDown(code) /\ UNCHANGED observers

HitchFrame ==
    \E delta \in HitchDeltas : WithinLag(currentGridPos) /\ Frame(delta) /\ UNCHANGED observers

NextHitch == HitchKey \/ HitchFrame

SpecHitch == HitchInit /\ [][NextHitch]_vars

----------------------------------------------------------------------------
(* Settling: a render loop that calls the frame callback at a constant     *)
(* rate, every frame lasting 0.05 s, 0.1 s or 0.15 s (pace).  The entity   *)
(* turns at will and moves one cell when the camera is at rest on its      *)
(* target, staying within MaxStroll cells of the cell it starts on or on    *)
(* the column of that cell north of it, which ends on the border of the    *)
(* grid, where the target of redObstacle is z = 0 and the error of the     *)
(* camera decays through the subnormal doubles.  frames counts the frame   *)
(* updates since the last move, up to SettleFrames.                        *)

SettleDeltas == {3, 6, 9}

SettleFrames == 150

MaxStroll == 1

\* cell pos is at most MaxStroll cells from the cell the scene starts on, or
\* north of it on its column
WithinStroll(pos) ==
    IF pos[1] = 5 /\ pos[2] < 5 THEN TRUE
    ELSE Abs(pos[1] - 5) + Abs(pos[2] - 5) <= MaxStroll

SettleInit ==
    /\ variant \in GridVariants
    /\ GridInit
    /\ RoamInit
    /\ frames = 0
    /\ descended = FALSE
    /\ pace \in SettleDeltas

SettleKey ==
    /\ \/ \E code \in {"ArrowLeft", "ArrowRight"} : KeyDown(code) /\ UNCHANGED frames
       \/ \E code \in {"ArrowUp", "ArrowDown"} :
              /\ atRest
              /\ WithinStroll(handleKeyDown(code).currentGridPos)
              /\ KeyDown(code)
              /\ frames' = 0
    /\ UNCHANGED <<descended, pace>>

SettleFrame ==
    /\ Frame(pace)
    /\ frames' = IF frames < SettleFrames THEN frames + 1 ELSE frames
    /\ UNCHANGED <<descended, pace>>

NextSettle == SettleKey \/ SettleFrame

SpecSettle == SettleInit /\ [][NextSettle]_vars

----------------------------------------------------------------------------
(* Paced: render loops of a constant frame time from 1/60 s to a full      *)
(* second (a stalled loop).  The entity turns and moves only while the     *)
(* camera is at rest on its target, within the cells of the settling.  At  *)
(* a frame time of one second the error of the camera is multiplied by -4  *)
(* every frame: the camera runs away from its target, to Infinity after    *)
(* some 510 frames and to NaN on the frame after.                          *)

PacedDeltas == {1, 6, TimeScale}

PacedInit ==
    /\ variant \in GridVariants
    /\ GridInit
    /\ RoamInit
    /\ frames = 0
    /\ descended = FALSE
    /\ pace \in PacedDeltas

PacedKey ==
    /\ atRest
    /\ \/ \E code \in {"ArrowLeft", "ArrowRight"} : KeyDown(code) /\ UNCHANGED frames
       \/ \E code \in {"ArrowUp", "ArrowDown"} :
              /\ WithinStroll(handleKeyDown(code).currentGridPos)
              /\ KeyDown(code)
              /\ frames' = 0
    /\ UNCHANGED <<descended, pace>>

PacedFrame ==
    /\ Frame(pace)
    /\ frames' = IF frames < SettleFrames THEN frames + 1 ELSE frames
    /\ UNCHANGED <<descended, pace>>

NextPaced == PacedKey \/ PacedFrame

SpecPaced == PacedInit /\ [][NextPaced]_vars

----------------------------------------------------------------------------
(* Properties *)

MoveKeys == {"ArrowUp", "ArrowDown"}

\* the cell a Forward or Backward event asks for
candidate(code) ==
    IF code = "ArrowUp" THEN forwardCell(currentGridPos, facingDirection)
    ELSE backwardCell(currentGridPos, facingDirection)

InRange(n) == 0 <= n /\ n < GRID_SIZE

\* C1: in every grid variant both axes of the grid coordinate stay in
\* [0, GRID_SIZE), and a Forward or Backward event whose candidate cell has an
\* axis outside that range leaves the grid coordinate unchanged.
C1_GridStaysInBounds ==
    variant \in GridVariants =>
        /\ InRange(currentGridPos[1]) /\ InRange(currentGridPos[2])
        /\ \A code \in MoveKeys :
               ~(InRange(candidate(code)[1]) /\ InRange(candidate(code)[2]))
                   => /\ handleKeyDown(code).currentGridPos = currentGridPos
                      /\ handleKeyDown(code).calls = <<>>

\* the entity has walked to the north wall and faces it: Forward asks for row -1
C1_Witness ==
    /\ variant = "mushroomBlocked"
    /\ currentGridPos[2] = 0
    /\ facingDirection = 0
    /\ playerGridPos = currentGridPos
    /\ candidate("ArrowUp")[2] = -1
    /\ handleKeyDown("ArrowUp").currentGridPos = currentGridPos

\* C2: in the sandbox variants the score is 10 times the number of distinct
\* collectibles removed from the active set, whatever collection events fired.
C2_ScoreCountsDistinctIds ==
    variant \in SandboxVariants =>
        score = SCORE_STEP * Cardinality(InitialCollectibles \ activeIds)

\* a frame update of no duration changes nothing in the controller
ZeroFrameFixed ==
    /\ variant \in GridVariants =>
           /\ useFrame(0).worldPosition = worldPosition
           /\ useFrame(0).playerHeight = playerHeight
           /\ useFrame(0).isJumping = isJumping
           /\ useFrame(0).jumpVelocity = jumpVelocity
           /\ useFrame(0).isFalling = isFalling
           /\ useFrame(0).fallSpeed = fallSpeed
    /\ variant \in RoamVariants =>
           /\ roamFrame(0).playerPosition = playerPosition
           /\ roamFrame(0).velocity = velocity
           /\ roamFrame(0).isOnGround = isOnGround

\* C3 as stated: from every reachable state a frame update with delta = 0
\* leaves the whole controller state unchanged.
C3_ZeroFrameChangesNothing == ZeroFrameFixed

\* a frame update of no duration moves nothing horizontally
ZeroFrameKeepsHorizontal ==
    /\ variant \in GridVariants =>
           /\ useFrame(0).worldPosition[1] = worldPosition[1]
           /\ useFrame(0).worldPosition[3] = worldPosition[3]
    /\ variant \in RoamVariants =>
           /\ roamFrame(0).playerPosition[1] = playerPosition[1]
           /\ roamFrame(0).playerPosition[3] = playerPosition[3]
           /\ roamFrame(0).velocity = velocity
           /\ roamFrame(0).isOnGround = isOnGround

\* C3 as amended: a frame update with delta = 0 never changes the grid
\* coordinate, the facing or the horizontal position (nor, free-roam, the
\* velocity or isOnGround), and it is idempotent: in the state it leaves, a
\* further frame update with delta = 0 changes nothing.
C3_ZeroFrameIdempotent ==
    /\ [](ZeroFrameKeepsHorizontal)
    /\ [][(Frame(0) \/ RoamFrame(0)) =>
             /\ ZeroFrameFixed'
             /\ UNCHANGED <<currentGridPos, facingDirection, keys>>]_vars

\* walked off a mushroom, then a frame update of no duration: Falling is set and
\* the fall speed is still 0
C3_Witness ==
    /\ variant = "mushroom"
    /\ isFalling
    /\ fallSpeed = 0
    /\ playerHeight = MUSHROOM_LEVEL
    /\ ZeroFrameFixed

\* a frame update of the grid variants, of any duration offered
AnyFrame == \E delta \in Deltas \cup FallDeltas \cup {JumpDelta} : Frame(delta)

\* C4: a jump from rest at height 0.5 on a bare cell, advanced by frames of
\* 1/60 s with no other input: the first frame raises the height, once a frame
\* has not raised it no later frame does, the entity stays above the floor while
\* it jumps, and within JumpFrames frames it is Grounded again at exactly 0.5
\* with jump velocity 0, having come down.
C4_JumpRisesFallsAndLands ==
    /\ [](isJumping => /\ frames < JumpFrames
                       /\ playerHeight >= FLOOR_LEVEL
                       /\ (frames > 0 => above(FLOOR_LEVEL)))
    /\ [](~isJumping => /\ playerHeight = FLOOR_LEVEL
                        /\ doubles.playerHeight = levels[FLOOR_LEVEL]
                        /\ jumpVelocity = 0
                        /\ doubles.jumpVelocity = Zero
                        /\ ~isFalling
                        /\ (frames > 0 => descended))
    /\ [][isJumping /\ frames = 0 /\ Frame(JumpDelta) => playerHeight' > playerHeight]_vars
    /\ [][isJumping /\ descended => playerHeight' <= playerHeight]_vars

\* the jump is over: the entity went up, came down and stands at 0.5 again,
\* JumpFrames frames after the jump input
C4_Witness ==
    /\ ~isJumping
    /\ frames = JumpFrames
    /\ descended
    /\ playerHeight = FLOOR_LEVEL
    /\ doubles.playerHeight = levels[FLOOR_LEVEL]
    /\ jumpVelocity = 0

\* Grounded at height 0.5 on a cell that holds a mushroom
SteppedOnMushroom ==
    /\ variant = "mushroom"
    /\ ~isJumping
    /\ ~isFalling
    /\ playerHeight = FLOOR_LEVEL
    /\ isOnMushroom(currentGridPos)

\* C5: when the entity is Grounded at height 0.5 on a mushroom cell, the next
\* frame update sets the height to exactly 1.0 in that one step and leaves the
\* entity Grounded: Falling is not entered.
C5_StepUpSnaps ==
    [][SteppedOnMushroom /\ AnyFrame =>
          /\ playerHeight' = MUSHROOM_LEVEL
          /\ worldPosition'[2] = MUSHROOM_LEVEL
          /\ gamePlayerHeight' = MUSHROOM_LEVEL
          /\ ~isFalling'
          /\ fallSpeed' = 0
          /\ ~isJumping']_vars

\* the entity has walked off a mushroom, fallen to the floor and stepped on a
\* mushroom again: Grounded at 0.5 on a mushroom cell, about to be lifted
C5_Witness ==
    /\ SteppedOnMushroom
    /\ playerGridPos = currentGridPos
    /\ useFrame(0).playerHeight = MUSHROOM_LEVEL

\* Grounded at height 1.0 on a cell that holds no mushroom
WalkedOffMushroom ==
    /\ variant = "mushroom"
    /\ ~isJumping
    /\ ~isFalling
    /\ playerHeight = MUSHROOM_LEVEL
    /\ ~isOnMushroom(currentGridPos)

\* C6: when the entity is Grounded at height 1.0 on a cell without a mushroom,
\* the next frame update enters Falling; a falling entity is still Falling
\* after every frame update that leaves its height above 0.5; and Falling ends
\* exactly in the step that sets the height to 0.5.
C6_WalkOffFalls ==
    /\ [][WalkedOffMushroom /\ AnyFrame => isFalling']_vars
    /\ [][isFalling /\ AnyFrame /\ playerHeight' > FLOOR_LEVEL => isFalling']_vars
    /\ [][isFalling => (~isFalling' <=> playerHeight' = FLOOR_LEVEL)]_vars
    /\ [](isFalling => playerHeight > FLOOR_LEVEL /\ ~isOnMushroom(currentGridPos))

\* in the middle of a fall: below the mushroom top and above the floor
C6_Witness ==
    /\ isFalling
    /\ playerHeight < MUSHROOM_LEVEL
    /\ playerHeight > FLOOR_LEVEL
    /\ fallSpeed < 0

\* C7: in every grid variant a Forward or Backward event that is accepted (the
\* move is notified) yields a coordinate that differs from the current one by
\* exactly 1 on exactly one axis and by 0 on the other; a rejected event yields
\* the current coordinate.
C7_MoveIsOneStep ==
    variant \in GridVariants =>
        \A code \in MoveKeys :
            LET r == handleKeyDown(code)
                dx == Abs(r.currentGridPos[1] - currentGridPos[1])
                dz == Abs(r.currentGridPos[2] - currentGridPos[2])
            IN  IF r.calls # <<>>
                THEN /\ (dx = 1 /\ dz = 0) \/ (dx = 0 /\ dz = 1)
                     /\ r.calls = << <<"onMove", r.currentGridPos>> >>
                ELSE r.currentGridPos = currentGridPos

\* the entity faces East, has moved away from its spawn cell and a further
\* Forward would be accepted
C7_Witness ==
    /\ variant \in GridVariants
    /\ facingDirection = 1
    /\ currentGridPos # <<5, 5>>
    /\ playerGridPos = currentGridPos
    /\ handleKeyDown("ArrowUp").calls # <<>>

NorthEastSouthWest == <<0, 1, 2, 3, 0>>
NorthWestSouthEast == <<0, 3, 2, 1, 0>>

\* C8: the facing is always one of 0..3; a TurnRight that is not ignored takes
\* it one step along North, East, South, West, North and a TurnLeft one step
\* along North, West, South, East, North, so four of either lead from North
\* through the whole cycle back to North.
C8_TurnsCycle ==
    variant \in GridVariants =>
        /\ facingDirection \in 0..3
        /\ ~isFalling =>
               \A i \in 1..4 :
                   /\ facingDirection = NorthEastSouthWest[i] =>
                          handleKeyDown("ArrowRight").facingDirection = NorthEastSouthWest[i + 1]
                   /\ facingDirection = NorthWestSouthEast[i] =>
                          handleKeyDown("ArrowLeft").facingDirection = NorthWestSouthEast[i + 1]

\* the entity has turned to West and stands still: the next TurnRight closes the cycle
C8_Witness ==
    /\ variant \in GridVariants
    /\ facingDirection = 3
    /\ ~isFalling
    /\ handleKeyDown("ArrowRight").facingDirection = 0
    /\ handleKeyDown("ArrowLeft").facingDirection = 2

\* Grounded, and within 0.1 of the ground level of the occupied cell
JumpAllowed ==
    /\ ~isJumping
    /\ ~isFalling
    /\ LET ground == levels[IF currentGridPos \in obstacles THEN MUSHROOM_LEVEL ELSE FLOOR_LEVEL]
           distance == fsub(doubles.playerHeight, ground)
       IN  ~fle(jumpEpsilon, [distance EXCEPT !.sign = Abs(@)])

\* C9: in the mushroom maze a jump input starts a jump with upward velocity 8
\* only when the entity is Grounded and its height is within 0.1 of the ground
\* level of its cell, and then changes nothing else; in every other state the
\* jump input changes no state and notifies nobody.
C9_JumpOnlyFromGround ==
    /\ [][variant = "mushroom" /\ KeyDown("Space") =>
             IF JumpAllowed
             THEN /\ isJumping'
                  /\ jumpVelocity' = JUMP_VELOCITY
                  /\ UNCHANGED <<currentGridPos, worldPosition, isFalling, fallSpeed,
                                 facingDirection, playerHeight, game>>
             ELSE UNCHANGED <<player, game>>]_vars
    /\ [](variant = "mushroom" => handleKeyDown("Space").calls = <<>>)

\* the jump input has just been taken: Jumping at ground level with velocity 8
C9_Witness ==
    /\ variant = "mushroom"
    /\ isJumping
    /\ jumpVelocity = JUMP_VELOCITY
    /\ playerHeight = MUSHROOM_LEVEL
    /\ isOnMushroom(currentGridPos)

\* C10: in the mushroom maze, while the entity is Falling every key event
\* leaves grid coordinate, facing, height, jump state and fall speed unchanged
\* and emits no moved or rotated notification.
C10_FallingLocksInput ==
    /\ [](variant = "mushroom" /\ isFalling =>
             \A code \in GridKeys :
                 handleKeyDown(code) =
                     [currentGridPos |-> currentGridPos, facingDirection |-> facingDirection,
                      isJumping |-> isJumping, jumpVelocity |-> jumpVelocity, calls |-> <<>>])
    /\ [][variant = "mushroom" /\ isFalling /\ (\E code \in GridKeys : KeyDown(code)) =>
             UNCHANGED <<player, game>>]_vars

\* falling from a mushroom top, with speed gained
C10_Witness ==
    /\ variant = "mushroom"
    /\ isFalling
    /\ fallSpeed < 0
    /\ playerHeight > FLOOR_LEVEL

\* C11: in the mushroom maze the entity is never Jumping and Falling at once,
\* whatever the order of key events and frame updates; a frame update starts
\* a fall only for an entity that does not jump, and a jump input starts a
\* jump only for an entity that does not fall.
C11_NeverJumpingAndFalling ==
    variant = "mushroom" =>
        /\ ~(isJumping /\ isFalling)
        /\ \A delta \in Deltas \cup FallDeltas \cup HopDeltas :
               ~(useFrame(delta).isJumping /\ useFrame(delta).isFalling)
        /\ \A code \in GridKeys : ~(handleKeyDown(code).isJumping /\ isFalling)

\* in mid-jump above the top of a mushroom, over a bare cell: the height is
\* above the ground level and yet the entity does not fall
C11_Witness ==
    /\ variant = "mushroom"
    /\ isJumping
    /\ ~isFalling
    /\ playerHeight > MUSHROOM_LEVEL
    /\ ~isOnMushroom(currentGridPos)

\* C12 as stated: in the mushroom maze a jump ends only in a frame update in
\* which the entity no longer rises (jump velocity <= 0) and its height does
\* not move up, also when it has moved onto or off a mushroom in mid-jump.
C12_JumpEndsOnlyDescending ==
    [][variant = "mushroom" /\ isJumping /\ ~isJumping' =>
           /\ jumpVelocity <= 0
           /\ playerHeight' <= playerHeight]_vars

\* C13: in the variants whose obstacles block, the grid coordinate is never
\* an obstacle cell, and a Forward or Backward whose candidate is an obstacle
\* cell changes nothing and notifies nobody.
C13_ObstaclesBlock ==
    variant \in {"redObstacle", "mushroomBlocked"} =>
        /\ currentGridPos \notin obstacles
        /\ \A code \in MoveKeys :
               candidate(code) \in obstacles =>
                   handleKeyDown(code) =
                       [currentGridPos |-> currentGridPos, facingDirection |-> facingDirection,
                        isJumping |-> isJumping, jumpVelocity |-> jumpVelocity, calls |-> <<>>]

\* the entity has walked up to an obstacle and faces it
C13_Witness ==
    /\ variant \in {"redObstacle", "mushroomBlocked"}
    /\ playerGridPos = currentGridPos
    /\ currentGridPos # <<5, 5>>
    /\ ~isFalling
    /\ forwardCell(currentGridPos, facingDirection) \in obstacles

\* the horizontal error of the camera on axis i (1 = x, 3 = z): target - current
horizontalError(i) == fsub(gridToWorld(currentGridPos)[i], worldPosition[i])

\* C14 as stated: a frame update of any duration leaves the camera, on each
\* horizontal axis, no farther from the target of its grid coordinate than it
\* was before the update.
C14_FrameNeverDiverges ==
    variant \in GridVariants =>
        \A delta \in HitchDeltas :
            \A i \in {1, 3} :
                fle(fabs(fsub(gridToWorld(currentGridPos)[i], useFrame(delta).worldPosition[i])),
                    fabs(horizontalError(i)))

\* x lies between a and b, ends included
Between(a, x, b) == (fle(a, x) /\ fle(x, b)) \/ (fle(b, x) /\ fle(x, a))

\* 1 - 5 * dt, which is a double at the frame times of a settling camera
decayFactor == [delta \in SettleDeltas |-> fsub(fratio(1, 1), fmul(speedDouble, seconds[delta]))]

RECURSIVE Decayed(_, _)
\* (1 - 5 * dt)^n of a cell, the lag a move leaves, by repeated squaring
Decayed(delta, n) ==
    IF n = 0 THEN fratio(CELL_SIZE, 1)
    ELSE IF n % 2 = 1 THEN fmul(Decayed(delta, n - 1), decayFactor[delta])
    ELSE CHOOSE value \in {fmul(half, half) : half \in {Decayed(delta, n \div 2)}} : TRUE

decay == [delta \in SettleDeltas |-> [n \in 0..(SettleFrames + 1) |-> Decayed(delta, n)]]

\* the error a camera may keep for good: 2^-40 of a unit
Tolerance == pow2(-40)

\* the room left to the rounding of a frame update: 2^-46 of a unit, four
\* units in the last place of a position inside the grid
Rounding == pow2(-46)

IdealPeak == (JUMP_VELOCITY * JUMP_VELOCITY * HeightScale) \div (2 * GRAVITY * VelScale * VelScale)

\* the height the first frame of a jump gains: 8 * dt
PeakTolerance == rise(JUMP_VELOCITY, JumpDelta)

\* C16: a jump from rest at height 0.5 on a bare cell, advanced by frames of
\* 1/60 s, never rises more than one frame step above 0.5 + 1.6, and the
\* height at which it stops rising, its maximum, is within one frame step
\* (8 * dt) of 0.5 + 1.6.
C16_JumpPeak ==
    /\ [](playerHeight <= FLOOR_LEVEL + IdealPeak + PeakTolerance)
    /\ [][isJumping /\ ~descended /\ descended' =>
              Abs(playerHeight - (FLOOR_LEVEL + IdealPeak)) <= PeakTolerance]_vars

\* at the top of the jump: the last frame has not raised the height, which is
\* at least 0.5 + 1.6
C16_Witness ==
    /\ variant = "mushroom"
    /\ isJumping
    /\ descended
    /\ jumpVelocity < 0
    /\ playerHeight >= FLOOR_LEVEL + IdealPeak

\* a key event of a grid variant
AnyKeyDown == \E code \in GridKeys : KeyDown(code)

\* a key-down or key-up event of a free-roam variant
AnyRoamKey == \E code \in RoamKeys : RoamKeyDown(code) \/ RoamKeyUp(code)

\* C17 as stated: an input event only buffers: at delivery it changes neither
\* grid coordinate, facing, motion state nor position of the controller.
C17_InputOnlyBuffered ==
    [][AnyKeyDown \/ AnyRoamKey =>
           UNCHANGED <<currentGridPos, facingDirection, isJumping, jumpVelocity, isFalling,
                       fallSpeed, worldPosition, playerHeight,
                       playerPosition, velocity, isOnGround>>]_vars

\* C17, amended: in the free-roam variants a key event only updates the held
\* keys and leaves position, velocity and isOnGround to the next frame update,
\* which reads the held keys; in the grid variants a key event is applied at
\* delivery to grid coordinate, facing and jump state (it never changes world
\* position, height or the falling state, which only frame updates change),
\* and a frame update never changes grid coordinate or facing.
C17_BufferedOnlyInFreeRoam ==
    /\ [][AnyRoamKey => UNCHANGED <<playerPosition, velocity, isOnGround, gamePlayerPosition>>]_vars
    /\ [](variant \in RoamVariants =>
              \A delta \in Deltas \cup RoamDeltas :
                  /\ keys.d /\ ~keys.a =>
                         roamFrame(delta).playerPosition[1] = playerPosition[1] + walkStep(delta)
                  /\ ~(keys.w \/ keys.a \/ keys.s \/ keys.d) =>
                         /\ roamFrame(delta).playerPosition[1] = playerPosition[1]
                         /\ roamFrame(delta).playerPosition[3] = playerPosition[3])
    /\ [][AnyKeyDown => UNCHANGED <<worldPosition, playerHeight, isFalling, fallSpeed,
                                    gamePlayerHeight>>]_vars
    /\ [][AnyFrame => UNCHANGED <<currentGridPos, facingDirection, playerGridPos,
                                  playerDirection>>]_vars

\* the D key is held and no frame has consumed it yet: the player, already
\* lifted to the ground level by an earlier frame, has not moved
C17_Witness ==
    /\ variant \in RoamVariants
    /\ keys.d
    /\ ~keys.a
    /\ playerPosition = <<0, FLOOR_LEVEL, 0>>
    /\ \E delta \in Deltas : roamFrame(delta).playerPosition[1] > 0

\* C18: in the sandbox variants no step of any kind adds an id to the active
\* collectibles, so an id once removed stays removed; the active ids are
\* always among 1, 2, 3, each listed once.
C18_CollectiblesOnlyShrink ==
    /\ [][activeIds' \subseteq activeIds]_vars
    /\ [](/\ activeIds \subseteq InitialCollectibles
          /\ Len(collectibles) = Cardinality(activeIds))

\* two collectibles are gone, keys have been pressed and frames have run
C18_Witness ==
    /\ variant \in RoamVariants
    /\ activeIds = {2}
    /\ keys.w
    /\ playerPosition[2] = FLOOR_LEVEL
    /\ score >= 2 * SCORE_STEP

\* C19: in every grid variant a key event notifies a move, with the new
\* coordinate, exactly when it changes the grid coordinate, and never for a
\* blocked candidate; the position Game keeps equals the controller's grid
\* coordinate in every reachable state.
C19_MoveNotificationTracksPosition ==
    variant \in GridVariants =>
        /\ playerGridPos = currentGridPos
        /\ \A code \in GridKeys :
               LET r == handleKeyDown(code)
               IN  /\ r.currentGridPos # currentGridPos <=>
                          \E i \in 1..Len(r.calls) : r.calls[i] = <<"onMove", r.currentGridPos>>
                   /\ \A i \in 1..Len(r.calls) :
                          r.calls[i][1] = "onMove" =>
                              /\ r.calls[i][2] = r.currentGridPos
                              /\ code \in MoveKeys
                              /\ ~isPositionBlocked(candidate(code))
                   /\ handlePlayerMove(r.calls) = r.currentGridPos

\* after accepted moves the entity stands where a move would be rejected
C19_Witness ==
    /\ variant \in GridVariants
    /\ playerGridPos # <<5, 5>>
    /\ playerGridPos = currentGridPos
    /\ ~isFalling
    /\ \E code \in MoveKeys : isPositionBlocked(candidate(code))

\* a TurnLeft or TurnRight event
TurnStep == KeyDown("ArrowLeft") \/ KeyDown("ArrowRight")

\* C20: a turn event that is not ignored changes the facing by one step modulo
\* 4 and, where Game keeps a copy of the facing, makes that copy equal to the
\* new facing; it changes neither grid coordinate, world position, height nor
\* the jumping and falling state.
C20_TurnChangesOnlyFacing ==
    [][TurnStep /\ ~isFalling =>
           /\ facingDirection' \in {(facingDirection + 1) % 4, (facingDirection + 3) % 4}
           /\ hasOnRotate => playerDirection' = facingDirection'
           /\ UNCHANGED <<currentGridPos, worldPosition, playerHeight, isJumping, jumpVelocity,
                          isFalling, fallSpeed, playerGridPos, gamePlayerHeight>>]_vars

\* the entity has turned to East in mid-jump and Game's copy has followed
C20_Witness ==
    /\ variant = "mushroom"
    /\ isJumping
    /\ facingDirection = 1
    /\ playerDirection = 1
    /\ currentGridPos = <<5, 5>>

\* frame times with 0 <= 5 * dt <= 1, in 1/60 s
SmoothDeltas == 0..(TimeScale \div SPEED)

\* C21 as stated: in every grid variant no key event changes the world
\* position, and a frame update with 0 <= 5 * dt <= 1 puts each horizontal
\* component between its previous value and the target of the current grid
\* coordinate, ends included.
C21_NoTeleport ==
    /\ [][AnyKeyDown => UNCHANGED worldPosition]_vars
    /\ [](variant \in GridVariants =>
              \A delta \in SmoothDeltas :
                  \A i \in {1, 3} :
                      Between(worldPosition[i], useFrame(delta).worldPosition[i],
                              gridToWorld(currentGridPos)[i]))

\* frame times below 0.2 s
GlideDeltas == SmoothDeltas \ {TimeScale \div SPEED}

\* the first product of the smoothing on axis i, (target - current) * speed
errorRate(i) == fmul(horizontalError(i), speedDouble)

\* x is within 2^-50 of |current| + |target| from the target on axis i
NearTarget(x, i) ==
    fle(fabs(fsub(gridToWorld(currentGridPos)[i], x)),
        fmul(pow2(-50), fadd(fabs(worldPosition[i]), fabs(gridToWorld(currentGridPos)[i]))))

\* C21: in every grid variant no key event changes the world position.  While
\* five times the error is a finite double, a frame update with a frame time
\* of 0 to 11/60 s puts each horizontal component between its previous value
\* and the target of the current grid coordinate, ends included, and a frame
\* update with a frame time of 0.2 s (5 * dt = 1) puts it on the target up to
\* rounding, on either side of it.  When five times the error is not finite
\* (the camera has run away from its target, or is Infinity or NaN) a frame
\* update puts the component on Infinity or NaN.
C21_NoTeleportUpToRounding ==
    /\ [][AnyKeyDown => UNCHANGED worldPosition]_vars
    /\ [](variant \in GridVariants =>
              \A i \in {1, 3} :
                  IF notFinite(errorRate(i))
                  THEN \A delta \in SmoothDeltas : notFinite(useFrame(delta).worldPosition[i])
                  ELSE /\ \A delta \in GlideDeltas :
                              Between(worldPosition[i], useFrame(delta).worldPosition[i],
                                      gridToWorld(currentGridPos)[i])
                       /\ NearTarget(useFrame(TimeScale \div SPEED).worldPosition[i], i))

\* one frame after a move: the camera is on its way, strictly between the
\* cell it left and the cell it goes to
C21_Witness ==
    /\ variant \in GridVariants
    /\ frames = 1
    /\ ~atRest
    /\ \E i \in {1, 3} : ~fle(fratio(CELL_SIZE, 1), fabs(horizontalError(i)))

\* C22: in the mushroom maze a frame update takes the ground level from the
\* grid coordinate of that frame (1.0 on a mushroom cell, 0.5 otherwise):
\* whenever the entity is Grounded after a frame update, its height is the
\* ground level of the cell it occupies.
C22_GroundedAtGroundLevel ==
    variant = "mushroom" =>
        \A delta \in HopDeltas \cup Deltas \cup FallDeltas :
            LET r == useFrame(delta)
            IN  \/ r.isJumping
                \/ r.isFalling
                \/ r.playerHeight = (IF currentGridPos \in obstacles
                                     THEN MUSHROOM_LEVEL ELSE FLOOR_LEVEL)

\* a frame update has grounded the entity on top of a mushroom
C22_Witness ==
    /\ variant = "mushroom"
    /\ currentGridPos \in obstacles
    /\ ~isJumping
    /\ ~isFalling
    /\ jumpVelocity = 0
    /\ playerHeight = MUSHROOM_LEVEL
    /\ gamePlayerHeight = MUSHROOM_LEVEL

\* C23: in the mushroom maze, while the entity jumps and does not fall, a
\* Forward or Backward whose candidate is inside the grid is accepted: the
\* grid coordinate becomes the candidate, the move is notified, and isJumping
\* and the jump velocity are left as they are.
C23_MoveWhileJumping ==
    variant = "mushroom" /\ isJumping /\ ~isFalling =>
        \A code \in MoveKeys :
            (InRange(candidate(code)[1]) /\ InRange(candidate(code)[2])) =>
                handleKeyDown(code) =
                    [currentGridPos |-> candidate(code), facingDirection |-> facingDirection,
                     isJumping |-> TRUE, jumpVelocity |-> jumpVelocity,
                     calls |-> << <<"onMove", candidate(code)>> >>]

\* in mid-jump above the floor, with a move made since the last frame: the
\* camera is still on its way to the new cell
C23_Witness ==
    /\ variant = "mushroom"
    /\ isJumping
    /\ playerHeight > FLOOR_LEVEL
    /\ ~atRest
    /\ playerGridPos = currentGridPos

\* C24: in the mushroom maze a Forward or Backward is never rejected because
\* of a mushroom: whenever the entity does not fall and the candidate is
\* inside the grid the move is accepted, mushroom cell or not.
C24_MushroomsNeverBlock ==
    variant = "mushroom" /\ ~isFalling =>
        \A code \in MoveKeys :
            (InRange(candidate(code)[1]) /\ InRange(candidate(code)[2])) =>
                /\ handleKeyDown(code).currentGridPos = candidate(code)
                /\ handleKeyDown(code).calls = << <<"onMove", candidate(code)>> >>

\* the entity has just stepped onto a mushroom cell, still at floor height,
\* and faces another cell inside the grid
C24_Witness ==
    /\ variant = "mushroom"
    /\ currentGridPos \in obstacles
    /\ playerGridPos = currentGridPos
    /\ ~isFalling
    /\ playerHeight = FLOOR_LEVEL
    /\ ~atRest

\* frame times from 0 to 0.5 s, in 1/60 s
FrameTimes == 0..(TimeScale \div 2)

\* C25: in the free-roam variants a frame update starts from the jump force 8
\* only when Space is held and isOnGround is true; in every other state, and
\* so whenever the player is airborne, it starts from the current vertical
\* velocity whether Space is held or not, and the vertical motion of the frame
\* is gravity alone: v' = v - 20 dt, y' = y + v' dt, clamped at the ground; an
\* airborne frame that does not land never raises the velocity.
C25_JumpOnlyFromGround ==
    variant \in RoamVariants =>
        \A delta \in FrameTimes :
            LET start == IF keys.space /\ isOnGround THEN JUMP_VELOCITY ELSE velocity[2]
                v == start - (GRAVITY * delta * VelScale) \div TimeScale
                y == playerPosition[2] + (v * delta * HeightScale) \div (VelScale * TimeScale)
                lands == \/ y < FLOOR_LEVEL
                         \/ y = FLOOR_LEVEL /\ fle(roamHeightDouble(delta), levels[FLOOR_LEVEL])
                r == roamFrame(delta)
            IN  /\ r.velocity[2] = IF lands THEN 0 ELSE v
                /\ r.playerPosition[2] = IF lands THEN FLOOR_LEVEL ELSE y
                /\ ~isOnGround /\ ~lands => r.velocity[2] <= velocity[2]

\* airborne and coming down with Space still held, one frame of 0.15 s
\* before the landing
C25_Witness ==
    /\ variant \in RoamVariants
    /\ ~isOnGround
    /\ keys.space
    /\ velocity[2] < 0
    /\ playerPosition[2] > FLOOR_LEVEL
    /\ \E delta \in RoamDeltas :
           /\ roamFrame(delta).isOnGround
           /\ roamFrame(delta).velocity[2] = 0

\* C26: after a frame update of any duration the height is not below the
\* ground level of the occupied cell: 1.0 on a mushroom cell and 0.5 otherwise
\* in the mushroom maze, 0.5 in the free-roam variants.
C26_NeverBelowGround ==
    /\ variant = "mushroom" =>
           \A delta \in FrameTimes :
               useFrame(delta).playerHeight >=
                   (IF currentGridPos \in obstacles THEN MUSHROOM_LEVEL ELSE FLOOR_LEVEL)
    /\ variant \in RoamVariants =>
           \A delta \in FrameTimes : roamFrame(delta).playerPosition[2] >= FLOOR_LEVEL

\* coming down in a jump over a mushroom, above its top
C26_Witness ==
    /\ variant = "mushroom"
    /\ isJumping
    /\ jumpVelocity < 0
    /\ currentGridPos \in obstacles
    /\ playerHeight > MUSHROOM_LEVEL

\* C28: in the free-roam variants, after a frame update of any duration and
\* with any keys held, isOnGround is true exactly when the height is 0.5, and
\* when isOnGround is true the vertical velocity is 0.
C28_OnGroundMeansAtGroundLevel ==
    variant \in RoamVariants =>
        \A delta \in FrameTimes :
            LET r == roamFrame(delta)
            IN  /\ r.isOnGround <=> /\ r.playerPosition[2] = FLOOR_LEVEL
                                     /\ roamFrameDoubles(delta).height = levels[FLOOR_LEVEL]
                /\ r.isOnGround => /\ r.velocity[2] = 0
                                   /\ roamFrameDoubles(delta).velocity = Zero

\* on the ground with Space held, after frame updates have walked the player
\* away from the start
C28_Witness ==
    /\ variant \in RoamVariants
    /\ isOnGround
    /\ keys.space
    /\ playerPosition[2] = FLOOR_LEVEL
    /\ velocity[2] = 0
    /\ playerPosition[1] # 0

\* C29: in the grid variants, when a Forward is accepted and the entity does
\* not fall afterwards, a Backward as the next event is accepted as well and
\* puts the entity back on the cell the Forward left; and the same with
\* Forward and Backward exchanged.
C29_ForwardBackwardRoundTrip ==
    [][\A code \in MoveKeys :
           (KeyDown(code) /\ currentGridPos' # currentGridPos /\ ~isFalling') =>
               LET back == IF code = "ArrowUp" THEN "ArrowDown" ELSE "ArrowUp"
               IN  /\ handleKeyDown(back)'.currentGridPos = currentGridPos
                   /\ handleKeyDown(back)'.calls = << <<"onMove", currentGridPos>> >>]_vars

\* the entity has just stepped Forward: its body is still over the cell
\* behind it, and a Backward now leads back there
C29_Witness ==
    /\ variant \in GridVariants
    /\ ~isFalling
    /\ backwardCell(currentGridPos, facingDirection) # currentGridPos
    /\ worldPosition[1] = gridToWorld(backwardCell(currentGridPos, facingDirection))[1]
    /\ worldPosition[3] = gridToWorld(backwardCell(currentGridPos, facingDirection))[3]
    /\ handleKeyDown("ArrowDown").currentGridPos = backwardCell(currentGridPos, facingDirection)

\* C27: in the mushroom maze, while frames of at least 0.15 s keep occurring,
\* every state in which the entity jumps or falls is followed by a state in
\* which it does neither, whatever moves are made during the jump; and a
\* locked input (the entity falls) is always followed by an unlocked one.
C27_AirborneEnds ==
    /\ (isJumping \/ isFalling) ~> (~isJumping /\ ~isFalling)
    /\ inputLocked ~> ~inputLocked

\* the entity has walked off a mushroom and is on its way down, input locked
C27_Witness ==
    /\ variant = "mushroom"
    /\ isFalling
    /\ inputLocked
    /\ fallSpeed < 0
    /\ FLOOR_LEVEL < playerHeight
    /\ playerHeight < MUSHROOM_LEVEL

====
